---- MODULE Spec2Model ----
(***************************************************************************)
(* Model of the FatSecret API client (src/py.py): the access-token cache   *)
(* of FatSecretAPI.get_access_token, the call sequence of                  *)
(* FatSecretAPI.search_food, and the response normalisation done by        *)
(* _decimal_or_none, _parse_serving and _parse_food_item.                  *)
(*                                                                         *)
(* Time is counted in hours.  Python's None is the string NoneVal where a  *)
(* string is expected and NoExpiry where a timestamp is expected.          *)
(***************************************************************************)
EXTENDS Integers, Sequences, FiniteSets, TLC

\* ------------------------------------------------------------------ bounds
MaxTime == 25            \* the clock stops advancing here
NumThreads == 2          \* call sites using one client concurrently

\* ------------------------------------------------------- program constants
TokenTTL == 23           \* timedelta(hours=23)
MinResults == 1          \* 1 <= max_results
MaxResults == 50         \* max_results <= 50
ErrAuth == 13            \* FatSecretError(13, ...)
ErrRange == 107          \* FatSecretError(107, ...)

\* an exception in flight: its class and, for FatSecretError, its error_code
FatSecretError(code) == <<"FatSecretError", code>>
Raised(cls) == <<cls, 0>>

NoneVal == "<None>"
NoExpiry == -1
NoError == <<"none", 0>>

Threads == 1..NumThreads
Tokens == {"T1", "T2"}

\* what data.get("access_token") can be for a 2xx JSON response: a token,
\* an empty string, or None when the field is missing
AccessTokenFields == Tokens \cup {"", NoneVal}

\* outcomes of requests.post, raise_for_status
\* and response.json(), in get_access_token
TokenOutcomes == {"ConnectionError", "HTTPError", "JSONDecodeError", "ok"}

\* outcomes of requests.get, raise_for_status
\* and response.json(), in search_food
SearchOutcomes == {"ConnectionError", "HTTPError", "JSONDecodeError", "ok"}

\* arguments tried for max_results
MaxResultsInputs == {0, 1, 50, 51}

\* ------------------------------------------------------------ JSON values
\* What response.json() yields.  A Python str is the sequence of its
\* characters, a dict is a function from its keys, None is JNull.
MaxStrLen == 3           \* longest numeric text tried
MaxList == 2             \* longest JSON list tried

JNull == [k |-> "null"]
JStr(s) == [k |-> "str", v |-> s]
JList(l) == [k |-> "list", v |-> l]
JObj(f) == [k |-> "obj", v |-> f]
EmptyDict == JObj(<<>>)

\* bool(x)
IsTruthy(x) ==
  CASE x.k = "null" -> FALSE
    [] x.k = "str" -> Len(x.v) > 0
    [] x.k = "list" -> Len(x.v) > 0
    [] x.k = "obj" -> DOMAIN x.v # {}

\* the outcome of evaluating an expression: a value or an exception class
Ok(v) == [exc |-> "none", val |-> v]
Exc(cls) == [exc |-> cls]
IsOk(r) == r.exc = "none"
NotRun == [exc |-> "not run"]

\* B applied to the value of e
With(e, B(_)) == CHOOSE y \in {B(x) : x \in {e}} : TRUE

\* statements in sequence: Rest goes on with the value of e, an exception
\* raised by e ends the sequence
Bind(e, Rest(_)) == With(e, LAMBDA r : IF IsOk(r) THEN Rest(r.val) ELSE r)

\* d.get(key, default); only a dict has .get
Get(d, key, default) ==
  IF d.k # "obj" THEN Exc("AttributeError")
  ELSE IF key \in DOMAIN d.v THEN Ok(d.v[key])
  ELSE Ok(default)

\* key in d
HasKey(d, key) == d.k = "obj" /\ key \in DOMAIN d.v

\* d[key]: KeyError on a dict without the key, TypeError on None, a str
\* or a list indexed by a str
Subscript(d, key) ==
  IF d.k # "obj" THEN Exc("TypeError")
  ELSE IF key \in DOMAIN d.v THEN Ok(d.v[key])
  ELSE Exc("KeyError")

\* exception classes and their base classes
Bases(cls) ==
  CASE cls = "InvalidOperation" ->
         {"InvalidOperation", "DecimalException", "ArithmeticError", "Exception"}
    [] OTHER -> {cls, "Exception"}

\* ---------------------------------------------------------------- Decimal
Digits == {"0", "1", "2", "3", "4", "5", "6", "7", "8", "9"}

\* characters numeric text is made of in the sample inputs
Alphabet == {"0", "1", ".", "-", "x"}

RECURSIVE StringsUpTo(_)
StringsUpTo(n) ==
  IF n = 0 THEN {<<>>}
  ELSE LET shorter == StringsUpTo(n - 1)
       IN shorter \cup {Append(s, c) : s \in shorter, c \in Alphabet}

AllDigits(s) == \A i \in 1..Len(s) : s[i] \in Digits

\* the text after an optional sign
Unsigned(s) == IF Len(s) > 0 /\ s[1] \in {"-", "+"} THEN Tail(s) ELSE s

DotsOf(s) == {i \in 1..Len(s) : s[i] = "."}

\* decimal's number syntax without exponent: sign? (digits [. digits*] | . digits)
IsDecimalSyntax(s) ==
  LET b == Unsigned(s)
      dots == DotsOf(b)
  IN /\ Cardinality(dots) <= 1
     /\ \A i \in (1..Len(b)) \ dots : b[i] \in Digits
     /\ Len(b) - Cardinality(dots) >= 1

RECURSIVE StripZeros(_)
StripZeros(s) ==
  IF Len(s) > 1 /\ s[1] = "0" THEN StripZeros(Tail(s)) ELSE s

\* the Decimal a numeric text denotes: sign, coefficient digits, exponent
DecimalOf(s) ==
  LET b == Unsigned(s)
      dots == DotsOf(b)
      dot == IF dots = {} THEN Len(b) + 1 ELSE CHOOSE i \in dots : TRUE
      intpart == SubSeq(b, 1, dot - 1)
      frac == SubSeq(b, dot + 1, Len(b))
  IN [sign |-> IF Len(s) > 0 /\ s[1] = "-" THEN 1 ELSE 0,
      coeff |-> StripZeros(intpart \o frac),
      exp |-> 0 - Len(frac)]

\* decimal.Decimal(x) for a JSON value x
Decimal(x) ==
  CASE x.k = "str" -> IF IsDecimalSyntax(x.v) THEN Ok(DecimalOf(x.v))
                      ELSE Exc("InvalidOperation")
    [] x.k = "list" -> Exc("ValueError")
    [] OTHER -> Exc("TypeError")

\* the classes named by the except clause of _decimal_or_none
DecimalCaught == {"TypeError", "ValueError"}

\* _decimal_or_none(value): Ok(JNull) is a returned None, an Exc is an
\* exception that leaves the function
decimal_or_none(x) ==
  IF x = JNull THEN Ok(JNull)
  ELSE With(Decimal(x),
            LAMBDA r : IF IsOk(r) THEN r
                       ELSE IF Bases(r.exc) \cap DecimalCaught # {} THEN Ok(JNull)
                       ELSE r)

\* -------------------------------------------------------------------- int
PyInt(n) == [k |-> "int", v |-> n]
PyDecimal(d) == [k |-> "dec", v |-> d]

DigitVal(c) ==
  CASE c = "0" -> 0 [] c = "1" -> 1 [] c = "2" -> 2 [] c = "3" -> 3
    [] c = "4" -> 4 [] c = "5" -> 5 [] c = "6" -> 6 [] c = "7" -> 7
    [] c = "8" -> 8 [] c = "9" -> 9

RECURSIVE NatOf(_)
NatOf(s) ==
  IF Len(s) = 0 THEN 0
  ELSE 10 * NatOf(SubSeq(s, 1, Len(s) - 1)) + DigitVal(s[Len(s)])

\* int's syntax for a str: sign? digits
IsIntSyntax(s) == Len(Unsigned(s)) > 0 /\ AllDigits(Unsigned(s))

\* int(x) for a JSON value x
int(x) ==
  CASE x.k = "str" ->
         IF IsIntSyntax(x.v)
           THEN Ok(PyInt(IF x.v[1] = "-" THEN 0 - NatOf(Unsigned(x.v))
                         ELSE NatOf(Unsigned(x.v))))
           ELSE Exc("ValueError")
    [] x.k = "int" -> Ok(x)
    [] OTHER -> Exc("TypeError")

\* --------------------------------------------------------- _parse_serving
\* the keys of the dict literal in source order, with what is done to each:
\* "text" is .get(key, ''), "raw" is .get(key), "decimal" is
\* _decimal_or_none(.get(key)), "flag" is the is_default expression
ServingFields ==
  << <<"serving_id", "text">>, <<"serving_description", "text">>,
     <<"serving_url", "text">>, <<"metric_serving_amount", "decimal">>,
     <<"metric_serving_unit", "raw">>, <<"number_of_units", "decimal">>,
     <<"measurement_description", "text">>, <<"is_default", "flag">>,
     <<"calories", "decimal">>, <<"carbohydrate", "decimal">>,
     <<"protein", "decimal">>, <<"fat", "decimal">>,
     <<"saturated_fat", "decimal">>, <<"polyunsaturated_fat", "decimal">>,
     <<"monounsaturated_fat", "decimal">>, <<"trans_fat", "decimal">>,
     <<"cholesterol", "decimal">>, <<"sodium", "decimal">>,
     <<"potassium", "decimal">>, <<"fiber", "decimal">>,
     <<"sugar", "decimal">>, <<"added_sugars", "decimal">>,
     <<"vitamin_d", "decimal">>, <<"vitamin_a", "decimal">>,
     <<"vitamin_c", "decimal">>, <<"calcium", "decimal">>,
     <<"iron", "decimal">> >>

\* _decimal_or_none applied to the outcome of serving.get(key)
CoerceGot(g) ==
  Bind(g, LAMBDA x :
    Bind(decimal_or_none(x), LAMBDA d :
      IF d = JNull THEN Ok(JNull) ELSE Ok(PyDecimal(d))))

\* the value of one key of the literal
ServingField(serving, key, kind) ==
  CASE kind = "text" -> Get(serving, key, JStr(<<>>))
    [] kind = "raw" -> Get(serving, key, JNull)
    [] kind = "decimal" -> CoerceGot(Get(serving, key, JNull))
    [] kind = "flag" ->
         IF serving.k = "null" THEN Exc("TypeError")
         ELSE IF HasKey(serving, key) THEN int(serving.v[key])
         ELSE Ok(JNull)

\* _parse_serving(serving): the dict, or the first exception in source order
parse_serving(serving) ==
  With([i \in 1..Len(ServingFields) |->
          ServingField(serving, ServingFields[i][1], ServingFields[i][2])],
       LAMBDA at :
         LET bad == {i \in DOMAIN at : ~IsOk(at[i])}
         IN IF bad # {}
              THEN at[CHOOSE i \in bad : \A j \in bad : i <= j]
              ELSE Ok([key \in {ServingFields[i][1] : i \in DOMAIN at} |->
                         at[CHOOSE i \in DOMAIN at : ServingFields[i][1] = key].val]))

\* ------------------------------------------------------- _parse_food_item
\* string literals of the source
StrGeneric == <<"G", "e", "n", "e", "r", "i", "c">>
StrBrand == <<"B", "r", "a", "n", "d">>
StrStandard == <<"S", "t", "a", "n", "d", "a", "r", "d">>

\* x if isinstance(x, list) else ([x] if x else [])
AsList(x) ==
  IF x.k = "list" THEN x.v
  ELSE IF IsTruthy(x) THEN <<x>>
  ELSE <<>>

\* .get(key, default) applied to the outcome of the .get before it
GetOn(g, key, default) == IF IsOk(g) THEN Get(g.val, key, default) ELSE g

\* the normalised list, once the chain of .get has produced its value
Listed(g) == IF IsOk(g) THEN Ok(AsList(g.val)) ELSE g

\* food.get('food_attributes', {}).get('allergens', {}).get('allergen', [])
allergens_data(f) ==
  Listed(GetOn(GetOn(Get(f, "food_attributes", EmptyDict),
                     "allergens", EmptyDict), "allergen", JList(<<>>)))

\* food.get('food_attributes', {}).get('preferences', {}).get('preference', [])
preferences_data(f) ==
  Listed(GetOn(GetOn(Get(f, "food_attributes", EmptyDict),
                     "preferences", EmptyDict), "preference", JList(<<>>)))

\* food.get('servings', {}).get('serving', [])
servings_data(f) ==
  Listed(GetOn(Get(f, "servings", EmptyDict), "serving", JList(<<>>)))

\* food.get('food_images', {}).get('food_image', [])
images_data(f) ==
  Listed(GetOn(Get(f, "food_images", EmptyDict), "food_image", JList(<<>>)))

\* food.get('food_sub_categories', {}).get('food_sub_category', [])
sub_categories(f) ==
  Listed(GetOn(Get(f, "food_sub_categories", EmptyDict),
               "food_sub_category", JList(<<>>)))

\* a dict or a list cannot be a dict key
Hashable(x) == x.k \notin {"list", "obj"}

\* for entry in entries: d[entry['name']] = int(entry['value'])
\* (the right-hand side is evaluated before the key)
RECURSIVE AttributeMap(_, _)
AttributeMap(entries, d) ==
  IF entries = <<>> THEN Ok(d)
  ELSE Bind(Subscript(Head(entries), "value"), LAMBDA v :
         Bind(int(v), LAMBDA i :
           Bind(Subscript(Head(entries), "name"), LAMBDA n :
             IF ~Hashable(n) THEN Exc("TypeError")
             ELSE AttributeMap(Tail(entries), (n :> i.v) @@ d))))

\* allergens = {} .. the loop over allergens_data, and the same for
\* preferences
AttributeDict(entries) == AttributeMap(entries, <<>>)

\* [self._parse_serving(serving) for serving in servings_data]
RECURSIVE ParseServings(_)
ParseServings(l) ==
  IF l = <<>> THEN Ok(<<>>)
  ELSE Bind(parse_serving(Head(l)), LAMBDA first :
         Bind(ParseServings(Tail(l)), LAMBDA rest : Ok(<<first>> \o rest)))

\* {'image_url': image.get('image_url', ''),
\*  'image_type': image.get('image_type', 'Standard')}
ParseImage(image) ==
  Bind(Get(image, "image_url", JStr(<<>>)), LAMBDA u :
    Bind(Get(image, "image_type", JStr(StrStandard)), LAMBDA t :
      Ok([image_url |-> u, image_type |-> t])))

RECURSIVE ParseImages(_)
ParseImages(l) ==
  IF l = <<>> THEN Ok(<<>>)
  ELSE Bind(ParseImage(Head(l)), LAMBDA first :
         Bind(ParseImages(Tail(l)), LAMBDA rest : Ok(<<first>> \o rest)))

\* the FoodItem(...) constructor call; f is a dict when this is reached
FoodItem(f, subs, images, servings, allergens, preferences) ==
  [food_id |-> Get(f, "food_id", JStr(<<>>)).val,
   food_name |-> Get(f, "food_name", JStr(<<>>)).val,
   brand_name |-> Get(f, "brand_name", JNull).val,
   food_type |-> Get(f, "food_type", JStr(StrGeneric)).val,
   food_url |-> Get(f, "food_url", JStr(<<>>)).val,
   food_sub_categories |-> IF subs # <<>> THEN JList(subs) ELSE JNull,
   images |-> images,
   servings |-> servings,
   allergens |-> allergens,
   preferences |-> preferences]

\* _parse_food_item(food): the FoodItem, or the first exception raised
parse_food_item(f) ==
  Bind(Bind(allergens_data(f), AttributeDict), LAMBDA allergens :
    Bind(Bind(preferences_data(f), AttributeDict), LAMBDA preferences :
      Bind(Bind(servings_data(f), ParseServings), LAMBDA servings :
        Bind(Bind(images_data(f), ParseImages), LAMBDA images :
          Bind(sub_categories(f), LAMBDA subs :
            Ok(FoodItem(f, subs, images, servings, allergens, preferences)))))))

\* ------------------------------------------------------------- raw inputs
StrEgg == <<"E", "g", "g">>
StrMilk == <<"M", "i", "l", "k">>
StrRecipe == <<"R", "e", "c", "i", "p", "e">>
StrIsolated == <<"I", "s", "o", "l", "a", "t", "e", "d">>
StrUrl == <<"u">>

RECURSIVE ListsUpTo(_, _)
ListsUpTo(E, n) ==
  IF n = 0 THEN {<<>>}
  ELSE LET shorter == ListsUpTo(E, n - 1)
       IN shorter \cup {Append(l, e) : l \in shorter, e \in E}

\* the keys that lead to each repeated field of a raw hit
RepeatedFields ==
  {<<"food_attributes", "allergens", "allergen">>,
   <<"food_attributes", "preferences", "preference">>,
   <<"servings", "serving">>,
   <<"food_images", "food_image">>,
   <<"food_sub_categories", "food_sub_category">>}

\* allergen and preference entries: with and without name and value, the
\* value inside and outside the tri-state, well and badly formed
AttributeEntries ==
  {JObj([name |-> JStr(n), value |-> JStr(v)]) :
     n \in {StrEgg, StrMilk}, v \in {<<"1">>, <<"-", "1">>, <<"2">>, <<"x">>}}
  \cup {JObj([name |-> JStr(StrEgg)]), JObj([value |-> JStr(<<"1">>)]),
        EmptyDict}

ServingEntries ==
  {JObj([calories |-> JStr(c)]) : c \in {<<"1", "0">>, <<"1", ".", "5">>, <<"x">>}}
  \cup {JObj([calories |-> JStr(<<"1">>), is_default |-> JStr(<<"1">>)]),
        EmptyDict}

ImageEntries ==
  {JObj([image_url |-> JStr(StrUrl)]),
   JObj([image_url |-> JStr(StrUrl), image_type |-> JStr(StrIsolated)]),
   EmptyDict}

CategoryEntries == {JStr(StrMilk), JStr(StrEgg), JStr(<<>>)}

EntriesOf(path) ==
  CASE path[Len(path)] \in {"allergen", "preference"} -> AttributeEntries
    [] path[Len(path)] = "serving" -> ServingEntries
    [] path[Len(path)] = "food_image" -> ImageEntries
    [] path[Len(path)] = "food_sub_category" -> CategoryEntries

\* the ways the API writes what lies under a path: a container that is
\* null, an empty string or an empty object, and at the end of the path
\* null, one bare entry, or a list of entries
RECURSIVE Shapes(_, _)
Shapes(path, E) ==
  IF path = <<>>
    THEN {JNull} \cup E \cup {JList(l) : l \in ListsUpTo(E, MaxList)}
    ELSE {JNull, JStr(<<>>), EmptyDict}
         \cup {JObj(Head(path) :> x) : x \in Shapes(Tail(path), E)}

\* raw hits that carry one repeated field
FoodsWith(path) == {f \in Shapes(path, EntriesOf(path)) : f.k = "obj"}

\* raw hits that carry the scalar fields
ScalarFoods ==
  {JObj([food_id |-> JStr(<<"7">>), food_name |-> JStr(StrMilk)]),
   JObj([food_id |-> JStr(<<"7">>), brand_name |-> JStr(StrEgg),
         food_url |-> JStr(StrUrl)])}
  \cup {JObj([food_type |-> t]) :
          t \in {JStr(StrBrand), JStr(StrGeneric), JStr(StrRecipe),
                 JStr(<<>>), JNull}}

RawFoods == ScalarFoods \cup UNION {FoodsWith(path) : path \in RepeatedFields}

\* ------------------------------------------------------------ search_food
\* [self._parse_food_item(food) for food in foods_data]
RECURSIVE ParseFoods(_)
ParseFoods(l) ==
  IF l = <<>> THEN Ok(<<>>)
  ELSE Bind(parse_food_item(Head(l)), LAMBDA first :
         Bind(ParseFoods(Tail(l)), LAMBDA rest : Ok(<<first>> \o rest)))

\* the body of the try block of search_food after response.json()
search_results(body) ==
  Bind(Get(body, "foods_search", EmptyDict), LAMBDA sr :
    Bind(Bind(Get(sr, "total_results", PyInt(0)), int), LAMBDA total_results :
      IF total_results.v = 0 THEN Ok(<<>>)
      ELSE Bind(Listed(GetOn(Get(sr, "results", EmptyDict), "food", JList(<<>>))),
                ParseFoods)))

\* raw hits used in search responses
HitMilk ==
  JObj([food_id |-> JStr(<<"7">>), food_name |-> JStr(StrMilk),
        servings |-> JObj([serving |-> JObj([calories |-> JStr(<<"1", "0">>)])])])
HitEgg ==
  JObj([food_id |-> JStr(<<"8">>), food_type |-> JStr(StrBrand),
        food_attributes |-> JObj([allergens |-> JObj([allergen |->
          JObj([name |-> JStr(StrEgg), value |-> JStr(<<"1">>)])])])])
HitNoName ==
  JObj([food_attributes |-> JObj([allergens |-> JObj([allergen |->
          JObj([value |-> JStr(<<"1">>)])])])])

FoodsSearch(total, foods) ==
  JObj([foods_search |->
          JObj([total_results |-> JStr(total), results |-> JObj([food |-> foods])])])

\* bodies of 2xx responses of the search provider
SearchBodies ==
  {EmptyDict,
   JObj([foods_search |-> JObj([total_results |-> JStr(<<"0">>)])]),
   JObj([foods_search |-> JObj([total_results |-> JStr(<<"x">>)])]),
   JObj([foods_search |-> JObj([total_results |-> JStr(<<"1">>), results |-> JNull])]),
   FoodsSearch(<<"1">>, HitMilk),
   FoodsSearch(<<"2">>, JList(<<HitMilk, HitEgg>>)),
   FoodsSearch(<<"1">>, HitNoName)}

\* arguments tried for _decimal_or_none
ScalarInputs ==
  {JNull, JList(<<>>), EmptyDict} \cup {JStr(s) : s \in StringsUpTo(MaxStrLen)}

VARIABLES
  now,            \* datetime.now()
  token,          \* self._token
  token_expiry,   \* self._token_expiry
  call,           \* per call site: the call it is running, see IdleCall
  value,          \* the argument of _decimal_or_none
  coerced,        \* what _decimal_or_none(value) did
  food,           \* the argument of _parse_food_item
  item            \* what _parse_food_item(food) did

clientVars == <<now, token, token_expiry, call>>
parseVars == <<value, coerced, food, item>>
vars == <<clientVars, parseVars>>

\* a call site that runs no call
IdleCall ==
  [pc |-> "idle",                 \* position in the running call
   op |-> "none",                 \* "get_access_token" or "search_food"
   max_results |-> 0,             \* the argument of search_food
   data |-> NoneVal,              \* data.get("access_token") of the response
   access_token |-> NoneVal,      \* what get_access_token returned
   err |-> NoError,               \* the exception that left the call
   events |-> <<>>,               \* the requests and steps of the call so far
   cacheAtCall |-> <<NoneVal, NoExpiry>>,  \* <<token, token_expiry>> when the
                                  \* call began, kept until the call itself
                                  \* assigns the cache
   response |-> JNull,            \* response.json() of the search request
   result |-> NotRun]             \* what search_food returns

\* Python truthiness of self._token
Truthy(s) == s # NoneVal /\ s # ""

\* the cache test of get_access_token
CacheValid(tok, exp, t) == Truthy(tok) /\ exp # NoExpiry /\ t < exp

\* the range test with the upper limit one too high
InRangeOffByOne(m) == MinResults <= m /\ m <= MaxResults + 1

\* the range test of search_food
InRange(m) == MinResults <= m /\ m <= MaxResults

ClientInit ==
  /\ now = 0
  /\ token = NoneVal
  /\ token_expiry = NoExpiry
  /\ call = [t \in Threads |-> IdleCall]

\* no parsing under way
ParseIdle ==
  /\ value = JNull
  /\ coerced = NotRun
  /\ food = JNull
  /\ item = NotRun

Init == ClientInit /\ ParseIdle

\* the clock advances
Tick ==
  /\ now < MaxTime
  /\ now' = now + 1
  /\ UNCHANGED <<token, token_expiry, call, parseVars>>

\* client.get_access_token() called directly
CallGetToken(t) ==
  /\ call[t].pc = "idle"
  /\ call' = [call EXCEPT ![t] =
                [IdleCall EXCEPT !.pc = "tok_check",
                                 !.op = "get_access_token",
                                 !.cacheAtCall = <<token, token_expiry>>]]
  /\ UNCHANGED <<now, token, token_expiry, parseVars>>

\* client.search_food(query, m, page): the range test comes first and
\* raises FatSecretError(107)
CallSearch(t) ==
  /\ call[t].pc = "idle"
  /\ \E m \in MaxResultsInputs :
       call' = [call EXCEPT ![t] =
                  [IdleCall EXCEPT
                     !.pc = IF InRange(m) THEN "tok_check" ELSE "raised",
                     !.op = "search_food",
                     !.max_results = m,
                     !.err = IF InRange(m) THEN NoError
                             ELSE FatSecretError(ErrRange),
                     !.cacheAtCall = <<token, token_expiry>>]]
  /\ UNCHANGED <<now, token, token_expiry, parseVars>>

\* where get_access_token returns to
AfterToken(o) == IF o = "search_food" THEN "search_get" ELSE "returned"

\* get_access_token, the cache test: return the cached token or go on to
\* the token endpoint
TokCheck(t) ==
  /\ call[t].pc = "tok_check"
  /\ IF CacheValid(token, token_expiry, now)
       THEN call' = [call EXCEPT
                       ![t].access_token = token,
                       ![t].events = Append(@, <<"token", "cached">>),
                       ![t].pc = AfterToken(call[t].op)]
       ELSE call' = [call EXCEPT ![t].pc = "tok_post"]
  /\ UNCHANGED <<now, token, token_expiry, parseVars>>

\* the exception that leaves a try block: a RequestException becomes
\* FatSecretError(13).  ConnectionError and HTTPError are RequestExceptions;
\* the JSONDecodeError of response.json() is one from requests 2.27 on and
\* a plain ValueError before
AfterExcept(o) ==
  IF o = "JSONDecodeError"
    THEN {FatSecretError(ErrAuth), Raised("ValueError")}
    ELSE {FatSecretError(ErrAuth)}

\* the token request with an except clause that forgets the cached token
TokPostClearsCache(t) ==
  /\ call[t].pc = "tok_post"
  /\ \E o \in TokenOutcomes :
       IF o = "ok"
         THEN /\ \E a \in AccessTokenFields :
                   call' = [call EXCEPT
                              ![t].data = a,
                              ![t].events = Append(@, <<"token", o>>),
                              ![t].pc = "tok_store_token"]
              /\ UNCHANGED token
         ELSE /\ \E e \in AfterExcept(o) :
                   call' = [call EXCEPT
                              ![t].err = e,
                              ![t].events = Append(@, <<"token", o>>),
                              ![t].pc = "raised"]
              /\ token' = NoneVal
  /\ UNCHANGED <<now, token_expiry, parseVars>>

\* the token request with an except clause that goes on to the search
TokPostSwallowsFailure(t) ==
  /\ call[t].pc = "tok_post"
  /\ \E o \in TokenOutcomes :
       IF o = "ok"
         THEN \E a \in AccessTokenFields :
                call' = [call EXCEPT
                           ![t].data = a,
                           ![t].events = Append(@, <<"token", o>>),
                           ![t].pc = "tok_store_token"]
         ELSE call' = [call EXCEPT
                         ![t].events = Append(@, <<"token", o>>),
                         ![t].pc = AfterToken(call[t].op)]
  /\ UNCHANGED <<now, token, token_expiry, parseVars>>

\* get_access_token, requests.post .. response.json(): one request to the
\* token provider
TokPost(t) ==
  /\ call[t].pc = "tok_post"
  /\ \E o \in TokenOutcomes :
       IF o = "ok"
         THEN \E a \in AccessTokenFields :
                call' = [call EXCEPT
                           ![t].data = a,
                           ![t].events = Append(@, <<"token", o>>),
                           ![t].pc = "tok_store_token"]
         ELSE \E e \in AfterExcept(o) :
                call' = [call EXCEPT
                           ![t].err = e,
                           ![t].events = Append(@, <<"token", o>>),
                           ![t].pc = "raised"]
  /\ UNCHANGED <<now, token, token_expiry, parseVars>>

\* self._token = data.get("access_token")
TokStoreToken(t) ==
  /\ call[t].pc = "tok_store_token"
  /\ token' = call[t].data
  /\ call' = [call EXCEPT ![t].pc = "tok_store_expiry",
                          ![t].cacheAtCall = <<NoneVal, NoExpiry>>]
  /\ UNCHANGED <<now, token_expiry, parseVars>>

\* self._token_expiry = datetime.now() + timedelta(hours=23)
TokStoreExpiry(t) ==
  /\ call[t].pc = "tok_store_expiry"
  /\ token_expiry' = now + TokenTTL
  /\ call' = [call EXCEPT ![t].pc = "tok_return"]
  /\ UNCHANGED <<now, token, parseVars>>

\* return self._token
TokReturn(t) ==
  /\ call[t].pc = "tok_return"
  /\ call' = [call EXCEPT ![t].access_token = token,
                          ![t].data = NoneVal,
                          ![t].pc = AfterToken(call[t].op)]
  /\ UNCHANGED <<now, token, token_expiry, parseVars>>

\* search_food, requests.get .. response.json(): one request to the search
\* provider with "Bearer <access_token>"
SearchGet(t) ==
  /\ call[t].pc = "search_get"
  /\ \E o \in SearchOutcomes :
       IF o = "ok"
         THEN \E b \in SearchBodies :
                call' = [call EXCEPT
                           ![t].response = b,
                           ![t].events = Append(@, <<"search", o>>),
                           ![t].pc = "normalize"]
         ELSE \E e \in AfterExcept(o) :
                call' = [call EXCEPT
                           ![t].err = e,
                           ![t].events = Append(@, <<"search", o>>),
                           ![t].pc = "raised"]
  /\ UNCHANGED <<now, token, token_expiry, parseVars>>

\* search_food, from data.get('foods_search', {}) to the return: exceptions
\* raised here are not RequestExceptions and leave search_food as they are
Normalize(t) ==
  /\ call[t].pc = "normalize"
  /\ \E r \in {search_results(call[t].response)} :
       IF IsOk(r)
         THEN call' = [call EXCEPT
                         ![t].result = r,
                         ![t].response = JNull,
                         ![t].events = Append(@, <<"normalize", "ok">>),
                         ![t].pc = "returned"]
         ELSE call' = [call EXCEPT
                         ![t].err = Raised(r.exc),
                         ![t].response = JNull,
                         ![t].events = Append(@, <<"normalize", r.exc>>),
                         ![t].pc = "raised"]
  /\ UNCHANGED <<now, token, token_expiry, parseVars>>

\* the caller has the result or the exception; the call's locals are gone
Finish(t) ==
  /\ call[t].pc \in {"returned", "raised"}
  /\ call' = [call EXCEPT ![t] = IdleCall]
  /\ UNCHANGED <<now, token, token_expiry, parseVars>>

\* one call site: calls follow one another
Next ==
  \/ Tick
  \/ CallGetToken(1)
  \/ CallSearch(1)
  \/ TokCheck(1)
  \/ TokPost(1)
  \/ TokStoreToken(1)
  \/ TokStoreExpiry(1)
  \/ TokReturn(1)
  \/ SearchGet(1)
  \/ Normalize(1)
  \/ Finish(1)

Spec == Init /\ [][Next]_vars

\* several call sites call get_access_token on one client; the code takes
\* no lock
NextConc ==
  \/ Tick
  \/ \E t \in Threads : CallGetToken(t)
  \/ \E t \in Threads : TokCheck(t)
  \/ \E t \in Threads : TokPost(t)
  \/ \E t \in Threads : TokStoreToken(t)
  \/ \E t \in Threads : TokStoreExpiry(t)
  \/ \E t \in Threads : TokReturn(t)
  \/ \E t \in Threads : Finish(t)

\* the concurrent calls start when the cache cannot serve them: the client
\* was never authenticated, or its token of hour 0 has just expired
InitConc ==
  /\ now = TokenTTL
  /\ \/ token = NoneVal /\ token_expiry = NoExpiry
     \/ token \in Tokens /\ token_expiry = TokenTTL
  /\ call = [t \in Threads |-> IdleCall]
  /\ ParseIdle

SpecConc == InitConc /\ [][NextConc]_vars

\* ------------------------------------------------- scalar coercion alone
InitCoerce ==
  /\ ClientInit
  /\ value \in ScalarInputs
  /\ coerced = NotRun
  /\ food = JNull
  /\ item = NotRun

\* one call of _decimal_or_none(value)
Coerce ==
  /\ coerced = NotRun
  /\ coerced' = decimal_or_none(value)
  /\ UNCHANGED <<clientVars, value, food, item>>

NextCoerce == Coerce

SpecCoerce == InitCoerce /\ [][NextCoerce]_vars

\* -------------------------------------------------- food item builder alone
InitParse ==
  /\ ClientInit
  /\ value = JNull
  /\ coerced = NotRun
  /\ food \in RawFoods
  /\ item = NotRun

\* one call of _parse_food_item(food)
ParseFood ==
  /\ item = NotRun
  /\ item' = parse_food_item(food)
  /\ UNCHANGED <<clientVars, value, coerced, food>>

NextParse == ParseFood

SpecParse == InitParse /\ [][NextParse]_vars

\* ================================================================ claims
Last(sq) == sq[Len(sq)]

\* what lies under a path of keys of a raw hit, and how it is written:
\* "absent" (a key is missing), "empty" (a container or the field itself is
\* null, an empty string or an empty object), "single" (one bare entry),
\* "list"
RECURSIVE Under(_, _)
Under(x, path) ==
  IF path = <<>>
    THEN IF x.k = "list" THEN <<"list", x>>
         ELSE IF x.k = "null" THEN <<"empty", x>>
         ELSE <<"single", x>>
    ELSE IF x.k # "obj" THEN <<"empty", x>>
         ELSE IF Head(path) \notin DOMAIN x.v
           THEN <<(IF x.v = <<>> THEN "empty" ELSE "absent"), x>>
         ELSE Under(x.v[Head(path)], Tail(path))

\* the raw hit with what lies under the path replaced
RECURSIVE Rewritten(_, _, _)
Rewritten(x, path, new) ==
  IF path = <<>> THEN new
  ELSE JObj([x.v EXCEPT ![Head(path)] = Rewritten(@, Tail(path), new)])

\* the sequence the code normalises a repeated field to
Normalized(f, path) ==
  CASE path[Len(path)] = "allergen" -> allergens_data(f)
    [] path[Len(path)] = "preference" -> preferences_data(f)
    [] path[Len(path)] = "serving" -> servings_data(f)
    [] path[Len(path)] = "food_image" -> images_data(f)
    [] path[Len(path)] = "food_sub_category" -> sub_categories(f)

\* C1: for each repeated field of a raw hit, a bare entry x is normalised
\* to the same sequence as the list [x]; an absent field and an empty or
\* absent container give the empty sequence and the build does not fail on
\* them; a list gives its elements in order.
C1_SingletonEqualsList ==
  item # NotRun =>
    \A path \in RepeatedFields :
      LET u == Under(food, path)
      IN CASE u[1] = "single" ->
                Normalized(food, path)
                  = Normalized(Rewritten(food, path, JList(<<u[2]>>)), path)
           [] u[1] = "list" -> Normalized(food, path) = Ok(u[2].v)
           [] OTHER -> /\ Normalized(food, path) = Ok(<<>>)
                       /\ (DOMAIN food.v \subseteq {path[1]} => IsOk(item))

\* C2: _decimal_or_none never raises, and returns a decimal exactly when
\* its argument is present and is written as a decimal number.
C2_CoercionTotal ==
  coerced # NotRun =>
    /\ IsOk(coerced)
    /\ (coerced.val # JNull <=> (value.k = "str" /\ IsDecimalSyntax(value.v)))

\* C3: the token provider is requested only when no exchange is cached or
\* the cached expiry has been reached, and then once per call.
C3_CachedWithinWindow ==
  \A t \in Threads :
    /\ call[t].pc = "tok_post" =>
         (token_expiry = NoExpiry \/ now >= token_expiry)
    /\ Cardinality({i \in DOMAIN call[t].events :
                      call[t].events[i] = <<"token", "ok">>}) <= 1
    /\ call[t].pc \in {"tok_store_token", "tok_store_expiry", "tok_return"}
         => call[t].events = << <<"token", "ok">> >>

\* C4: search_food with max_results below 1 or above 50 raises
\* FatSecretError(107) with no request made to either provider and the
\* token cache as it was.
C4_RangeCheckedFirst ==
  \A t \in Threads :
    (call[t].op = "search_food"
       /\ (call[t].max_results < 1 \/ call[t].max_results > 50))
    => /\ call[t].pc = "raised"
       /\ call[t].err = FatSecretError(107)
       /\ call[t].events = <<>>
       /\ <<token, token_expiry>> = call[t].cacheAtCall

C4_Witness ==
  /\ call[1].pc = "raised"
  /\ call[1].max_results = 51
  /\ call[1].err = FatSecretError(107)
  /\ token = "T1"
  /\ now < token_expiry

\* the call's only request went to the token provider and failed in
\* transport or with a non-success status
TokenRequestFailed(t) ==
  /\ Len(call[t].events) = 1
  /\ call[t].events[1][1] = "token"
  /\ call[t].events[1][2] \in {"ConnectionError", "HTTPError"}

\* C5: when the request to the token provider fails, the call raises
\* FatSecretError(13), the cached token and expiry are what they were when
\* the call began, and the cache cannot serve the next call.
C5_FailedExchangeKeepsCache ==
  \A t \in Threads :
    TokenRequestFailed(t) =>
      /\ call[t].pc = "raised"
      /\ call[t].err = FatSecretError(13)
      /\ <<token, token_expiry>> = call[t].cacheAtCall
      /\ ~(token # NoneVal /\ token # "" /\ token_expiry # NoExpiry
           /\ now < token_expiry)

C5_Witness ==
  /\ TokenRequestFailed(1)
  /\ call[1].events[1][2] = "HTTPError"
  /\ token = "T1"
  /\ token_expiry = TokenTTL

\* inside the refresh: from the decision to request a token to the write
\* of the new expiry
Refreshing(t) ==
  call[t].pc \in {"tok_post", "tok_store_token", "tok_store_expiry"}

\* C6: of the call sites using one client, at most one at a time is inside
\* the refresh of the token, and a cached token is only returned before
\* its cached expiry.
C6_RefreshIsCriticalSection ==
  /\ [](\A t1, t2 \in Threads : Refreshing(t1) /\ Refreshing(t2) => t1 = t2)
  /\ [][\A t \in Threads :
          (call[t].pc = "tok_check" /\ call'[t].pc = "returned")
            => (token_expiry # NoExpiry /\ now < token_expiry)]_vars

\* the food_type key of a raw hit, JNull when the key is missing
RawFoodType(f) == IF "food_type" \in DOMAIN f.v THEN f.v["food_type"] ELSE JNull

\* C7: the built food_type is Brand or Generic: the raw food_type when that
\* is Brand or Generic, Generic otherwise.
C7_FoodTypeDefaultsToGeneric ==
  (item # NotRun /\ IsOk(item)) =>
    item.val.food_type =
      IF RawFoodType(food) \in {JStr(StrBrand), JStr(StrGeneric)}
        THEN RawFoodType(food)
        ELSE JStr(StrGeneric)

\* the allergen and preference entries the builder goes through
AttributeEntriesOf(f) == allergens_data(f).val \o preferences_data(f).val

\* C8: when every allergen and preference entry has a name the build
\* succeeds and maps the names to values in {-1, 0, 1}; a build of a hit
\* that carries nothing but attributes fails only when an entry has no name.
C8_AttributesNeedOnlyName ==
  (item # NotRun /\ IsOk(allergens_data(food)) /\ IsOk(preferences_data(food))
     /\ DOMAIN food.v \subseteq {"food_attributes"}) =>
    LET named == \A i \in DOMAIN AttributeEntriesOf(food) :
                   HasKey(AttributeEntriesOf(food)[i], "name")
    IN /\ named <=> IsOk(item)
       /\ IsOk(item) =>
            /\ \A n \in DOMAIN item.val.allergens :
                 item.val.allergens[n] \in {-1, 0, 1}
            /\ \A n \in DOMAIN item.val.preferences :
                 item.val.preferences[n] \in {-1, 0, 1}

C10_TokenPresent ==
  /\ \A t \in Threads :
       (call[t].pc \in {"search_get", "normalize", "returned"}
          => (call[t].access_token # NoneVal /\ call[t].access_token # ""))
  /\ token_expiry # NoExpiry => token # NoneVal
====
